---------------------------- MODULE Spec2Model ----------------------------
(***************************************************************************)
(* Region queries over the inspection_region table.                        *)
(*                                                                         *)
(*   solution 3/solution3.cpp : SimpleJsonParser (text -> operation tree), *)
(*                              RegionQuery (tree -> points -> output)     *)
(*   solution 2/solution2.cpp : RegionQuery::buildQuery (single crop)      *)
(*                                                                         *)
(* Real numbers (double) are fixed-point integers counted in units of      *)
(* 1e-7, so that the 6-decimal formatting of std::to_string(double) and    *)
(* the 6-significant-digit formatting of operator<<(double) are visible.   *)
(***************************************************************************)
EXTENDS Integers, Sequences, FiniteSets, TLC

VARIABLES
    pc,         \* position in main / executeQuery
    query_file, \* the query file, as its lines
    desc,       \* the operation tree the query file describes; Null if none
    db,         \* rows of inspection_region
    failAt,     \* which store access of this run throws (0: none)
    openOk,     \* whether std::ofstream can open the output file
    query_op,   \* executeQuery's query_op; Null before parsing
    points,     \* executeQuery's points
    reads,      \* number of store accesses attempted so far
    outFile,    \* the output file: whether it was opened, the lines written
    cerr,       \* the messages printed on std::cerr
    status,     \* exit status of the process; NoStatus while running
    later,      \* the tables other sessions' commits leave: later[n] is what
                \* the n+1-st store access of the run finds (db what the first finds)
    data_directory,   \* the loader's data directory: the lines of its three files
    inspection_group, \* rows (ids) of inspection_group
    loads       \* runs of the loader so far

vars == <<pc, query_file, desc, db, failAt, openOk, query_op, points, reads, outFile,
          cerr, status, later, data_directory, inspection_group, loads>>

NoStatus == 0 - 1

(***************************************************************************)
(* Numbers                                                                 *)
(***************************************************************************)
\* 1.0 as a fixed-point double: seven decimals are kept.
One == 10 * 1000 * 1000

Abs(v) == IF v < 0 THEN -v ELSE v

\* v rounded to the nearest multiple of m, ties to even.
RoundTo(v, m) ==
    LET a == Abs(v)
        q == a \div m
        r == a % m
        up == (2 * r > m) \/ (2 * r = m /\ q % 2 = 1)
        n == IF up THEN (q + 1) * m ELSE q * m
    IN  IF v < 0 THEN -n ELSE n

\* std::to_string(double) prints as printf("%f"): six decimals.  The value of
\* the literal that ends up in the SQL text.
to_string(v) == RoundTo(v, 10)

RECURSIVE Pow10Above(_, _)
\* least power of ten p >= from with a < p
Pow10Above(a, from) == IF a < from THEN from ELSE Pow10Above(a, from * 10)

\* operator<<(std::ostream&, double) with the default precision: six
\* significant digits.  The value of the number printed.
ostream_double(v) ==
    LET p == Pow10Above(Abs(v), 1000000)
    IN  RoundTo(v, p \div 1000000)

(***************************************************************************)
(* Sets and sequences                                                      *)
(***************************************************************************)
Range(s) == {s[i] : i \in 1..Len(s)}

Min(S) == CHOOSE m \in S : \A n \in S : m <= n
Max(S) == CHOOSE m \in S : \A n \in S : m >= n

RECURSIVE SeqsUpTo(_, _)
\* all sequences over S of length 0..n
SeqsUpTo(S, n) ==
    IF n = 0 THEN {<<>>}
    ELSE LET shorter == SeqsUpTo(S, n - 1)
         IN  shorter \cup {Append(s, e) : s \in {t \in shorter : Len(t) = n - 1}, e \in S}

(***************************************************************************)
(* Entities (solution3.cpp 12-45, 208-226)                                 *)
(***************************************************************************)
InspectionPoint(id, group_id, x, y, category) ==
    [id |-> id, group_id |-> group_id, x |-> x, y |-> y, category |-> category]

Region(min_x, min_y, max_x, max_y) ==
    [p_min_x |-> min_x, p_min_y |-> min_y, p_max_x |-> max_x, p_max_y |-> max_y]

\* CropParams() : category(-1), proper(false), has_category(false),
\*                has_one_of_groups(false)
CropParams ==
    [region |-> Region(0, 0, 0, 0), category |-> -1, one_of_groups |-> <<>>,
     proper |-> FALSE, has_category |-> FALSE, has_one_of_groups |-> FALSE]

CropOperation(params) == [type |-> "crop", params |-> params, operands |-> <<>>]
AndOperation(operands) == [type |-> "and", params |-> CropParams, operands |-> operands]
OrOperation(operands) == [type |-> "or", params |-> CropParams, operands |-> operands]
\* the empty std::shared_ptr<QueryOperation>
Null == [type |-> "null", params |-> CropParams, operands |-> <<>>]

\* the comparison with the roles of x and y exchanged
InspectionPointLessXFirst(a, b) ==
    IF a.x < b.x THEN TRUE
    ELSE IF a.x > b.x THEN FALSE
    ELSE a.y < b.y

\* InspectionPoint::operator< : by y, then x
InspectionPointLess(a, b) ==
    IF a.y < b.y THEN TRUE
    ELSE IF a.y > b.y THEN FALSE
    ELSE a.x < b.x

(***************************************************************************)
(* The filter built for one crop.  The SQL text is kept as the record of   *)
(* its clauses, every literal as the number the text denotes.              *)
(***************************************************************************)
\* the group clause written whenever the list is present, so that an empty
\* list matches no group
buildCropQueryEmptyIn(params) ==
    [join |-> IF params.proper THEN "minmax" ELSE "none",
     min_x |-> to_string(params.region.p_min_x),
     max_x |-> to_string(params.region.p_max_x),
     min_y |-> to_string(params.region.p_min_y),
     max_y |-> to_string(params.region.p_max_y),
     category |-> IF params.has_category THEN <<params.category>> ELSE <<>>,
     groups |-> IF ~params.has_one_of_groups THEN <<>>
                ELSE IF params.one_of_groups = <<>> THEN <<0 - 1>>
                ELSE params.one_of_groups]

\* solution 3: JOIN on groups HAVING MIN/MAX inside, WHERE >= / <=
buildCropQuery(params) ==
    [join |-> IF params.proper THEN "minmax" ELSE "none",
     min_x |-> to_string(params.region.p_min_x),
     max_x |-> to_string(params.region.p_max_x),
     min_y |-> to_string(params.region.p_min_y),
     max_y |-> to_string(params.region.p_max_y),
     category |-> IF params.has_category THEN <<params.category>> ELSE <<>>,
     groups |-> IF params.has_one_of_groups /\ params.one_of_groups # <<>>
                THEN params.one_of_groups ELSE <<>>]

\* solution 2: JOIN on groups HAVING EVERY(... BETWEEN ...), WHERE BETWEEN;
\* QueryParams has no has_* flags: category -1 means not specified.
buildQuery(params) ==
    [join |-> IF params.proper THEN "every" ELSE "none",
     min_x |-> to_string(params.region.p_min_x),
     max_x |-> to_string(params.region.p_max_x),
     min_y |-> to_string(params.region.p_min_y),
     max_y |-> to_string(params.region.p_max_y),
     category |-> IF params.category # -1 THEN <<params.category>> ELSE <<>>,
     groups |-> IF params.one_of_groups # <<>> THEN params.one_of_groups ELSE <<>>]

\* solution 2's QueryParams of a solution 3 CropParams (parseQueryFile 98-111)
QueryParams(params) ==
    [region |-> params.region,
     category |-> IF params.has_category THEN params.category ELSE -1,
     one_of_groups |-> IF params.has_one_of_groups THEN params.one_of_groups ELSE <<>>,
     proper |-> params.proper]

(***************************************************************************)
(* The store: what PostgreSQL answers to the two SELECT statements.        *)
(***************************************************************************)
GroupRows(rows, g) == {r \in rows : r.group_id = g}

\* the sub-select "SELECT group_id ... GROUP BY group_id HAVING ..."
proper_groups(q, rows) ==
    {g \in {r.group_id : r \in rows} :
        LET members == GroupRows(rows, g)
        IN  IF q.join = "minmax"
            THEN /\ Min({r.x : r \in members}) >= q.min_x
                 /\ Max({r.x : r \in members}) <= q.max_x
                 /\ Min({r.y : r \in members}) >= q.min_y
                 /\ Max({r.y : r \in members}) <= q.max_y
            ELSE /\ \A r \in members : q.min_x <= r.x /\ r.x <= q.max_x
                 /\ \A r \in members : q.min_y <= r.y /\ r.y <= q.max_y}

\* the crop SELECT
SelectCrop(q, rows) ==
    {r \in rows :
        /\ q.join # "none" => r.group_id \in proper_groups(q, rows)
        /\ r.x >= q.min_x /\ r.x <= q.max_x
        /\ r.y >= q.min_y /\ r.y <= q.max_y
        /\ q.category # <<>> => r.category = q.category[1]
        /\ q.groups # <<>> => r.group_id \in Range(q.groups)}

\* the lookup with the wrong column in its WHERE clause
SelectByGroupIds(ids, rows) == {r \in rows : r.group_id \in ids}

\* "SELECT ... WHERE id IN (...)"
SelectByIds(ids, rows) == {r \in rows : r.id \in ids}

RECURSIVE ResultVector(_)
\* The rows of a result as the vector the loop over `result` fills.  The
\* store promises no order; the rows are taken by ascending id.
ResultVector(rows) ==
    IF rows = {} THEN <<>>
    ELSE LET first == CHOOSE r \in rows : \A o \in rows : r.id <= o.id
         IN  <<first>> \o ResultVector(rows \ {first})

IdSet(v) == {v[i].id : i \in 1..Len(v)}

(***************************************************************************)
(* std::string, positions counted from 0 as in the source                  *)
(***************************************************************************)
\* std::string::npos, the largest size_t
NPos == 0 - 1

\* a + k in size_t: npos + k wraps around to k - 1
SizeAdd(a, k) == IF a = NPos THEN k - 1 ELSE a + k

\* a < b in size_t
SizeLess(a, b) == a # NPos /\ (b = NPos \/ a < b)

\* content[i]; the character at size() is the terminating NUL, written ""
CharAt(s, i) == IF i < Len(s) THEN SubSeq(s, i + 1, i + 1) ELSE ""

\* s.find(key, pos): the first position from pos on where key stands
find(s, key, pos) ==
    LET hits == IF pos = NPos THEN {}
                ELSE {i \in pos..(Len(s) - Len(key)) : SubSeq(s, i + 1, i + Len(key)) = key}
    IN  IF hits = {} THEN NPos ELSE Min(hits)

\* s.find_first_of(chars, pos): the first position from pos on of a character of chars
find_first_of(s, chars, pos) ==
    LET hits == IF pos = NPos THEN {}
                ELSE {i \in pos..(Len(s) - 1) : CharAt(s, i) \in chars}
    IN  IF hits = {} THEN NPos ELSE Min(hits)

\* s.substr(start, end - start): up to end, or to the end of s when end is npos
substr(s, start, end) == SubSeq(s, start + 1, IF end = NPos THEN Len(s) ELSE end)

Digits == <<"0", "1", "2", "3", "4", "5", "6", "7", "8", "9">>
IsDigit(c) == \E d \in 1..10 : Digits[d] = c
DigitValue(c) == (CHOOSE d \in 1..10 : Digits[d] = c) - 1

RECURSIVE SkipSpaces(_, _)
SkipSpaces(s, i) == IF CharAt(s, i) = " " THEN SkipSpaces(s, i + 1) ELSE i

RECURSIVE DigitsEnd(_, _)
\* the position after the digits that start at i
DigitsEnd(s, i) == IF IsDigit(CharAt(s, i)) THEN DigitsEnd(s, i + 1) ELSE i

RECURSIVE DecimalValue(_, _, _, _)
\* the number the digits s[i..j-1] spell after the digits that spell acc
DecimalValue(s, i, j, acc) ==
    IF i >= j THEN acc ELSE DecimalValue(s, i + 1, j, 10 * acc + DigitValue(CharAt(s, i)))

\* std::stoi / std::stol: leading spaces, a sign, digits; the rest of the text
\* is ignored; no digits: std::invalid_argument
stol(str) ==
    LET b == SkipSpaces(str, 0)
        neg == CharAt(str, b) = "-"
        d == IF CharAt(str, b) \in {"-", "+"} THEN b + 1 ELSE b
        e == DigitsEnd(str, d)
        n == DecimalValue(str, d, e, 0)
    IN  IF e = d THEN [thrown |-> TRUE, value |-> 0]
        ELSE [thrown |-> FALSE, value |-> IF neg THEN -n ELSE n]

stoi(str) == stol(str)

\* std::stod for decimal text: leading spaces, a sign, digits, a fraction of
\* which seven digits are kept; no digits: std::invalid_argument
stod(str) ==
    LET b == SkipSpaces(str, 0)
        neg == CharAt(str, b) = "-"
        d == IF CharAt(str, b) \in {"-", "+"} THEN b + 1 ELSE b
        e == DigitsEnd(str, d)
        f == IF CharAt(str, e) = "." THEN e + 1 ELSE e
        g == DigitsEnd(str, f)
        kept == IF g - f > 7 THEN f + 7 ELSE g
        frac == DecimalValue(str, f, kept, 0) * (10 ^ (7 - (kept - f)))
        n == DecimalValue(str, d, e, 0) * One + frac
    IN  IF e = d /\ g = f THEN [thrown |-> TRUE, value |-> 0]
        ELSE [thrown |-> FALSE, value |-> IF neg THEN -n ELSE n]

(***************************************************************************)
(* SimpleJsonParser (solution3.cpp 47-205).  A parse yields                *)
(* [result, what, op]: "ok" with the operation, "throw" with the message   *)
(* of the exception, or "hang" when the call never returns: a loop that    *)
(* does not advance, or a recursion that comes back to a call still on the *)
(* stack.  The parser reads nothing but content and its position, so a     *)
(* loop entered again at a position it was entered at (`seen`) and a call  *)
(* of parseOperation at a position of a call still active (`active`)       *)
(* repeat for ever.                                                        *)
(***************************************************************************)
Parsed(op) == [result |-> "ok", what |-> "", op |-> op]
ParseThrows(what) == [result |-> "throw", what |-> what, op |-> Null]
ParseHangs == [result |-> "hang", what |-> "", op |-> Null]

\* yields [thrown, value, pos]: pos is the reference parameter after the call
extractDouble(content, key, pos) ==
    LET found == find(content, key, pos)
        start == found + Len(key)
        end == find_first_of(content, {",", "}"}, start)
        num == stod(substr(content, start, end))
    IN  IF found = NPos THEN [thrown |-> FALSE, value |-> 0, pos |-> pos]
        ELSE [thrown |-> num.thrown, value |-> num.value, pos |-> end]

\* brace_count after the loop of findMatchingBrace has read content[start..i]
braceCount(content, start, i) ==
    Cardinality({j \in start..i : CharAt(content, j) = "{"})
        - Cardinality({j \in start..i : CharAt(content, j) = "}"})

\* the first i from start on at which brace_count is 0, npos when there is none
findMatchingBrace(content, start) ==
    LET hits == {i \in start..(Len(content) - 1) : braceCount(content, start, i) = 0}
    IN  IF hits = {} THEN NPos ELSE Min(hits)

RECURSIVE parseGroupIds(_, _)
\* the loop over the comma-separated group ids, from group_start on;
\* yields [thrown, ids]
parseGroupIds(groups_str, group_start) ==
    IF group_start >= Len(groups_str) THEN [thrown |-> FALSE, ids |-> <<>>]
    ELSE LET comma == find(groups_str, ",", group_start)
             group_end == IF comma = NPos THEN Len(groups_str) ELSE comma
             group_str == substr(groups_str, group_start, group_end)
             id == stol(group_str)
             rest == parseGroupIds(groups_str, group_end + 1)
         IN  IF group_str # "" /\ id.thrown THEN [thrown |-> TRUE, ids |-> <<>>]
             ELSE IF rest.thrown THEN rest
             ELSE [thrown |-> FALSE,
                   ids |-> (IF group_str # "" THEN <<id.value>> ELSE <<>>) \o rest.ids]

\* the keys of the four bounds, in the order parseCropOperation reads them
RegionKeys == <<"\"p_min\": { \"x\":", "\"y\":", "\"p_max\": { \"x\":", "\"y\":">>

RECURSIVE extractRegion(_, _, _)
\* "Extract region coordinates": extractDouble for the keys from the i-th
\* on, each search starting where the one before ended;
\* yields [thrown, values, pos]
extractRegion(content, i, pos) ==
    IF i > Len(RegionKeys) THEN [thrown |-> FALSE, values |-> <<>>, pos |-> pos]
    ELSE LET bound == extractDouble(content, RegionKeys[i], pos)
             rest == extractRegion(content, i + 1, bound.pos)
         IN  IF bound.thrown THEN [thrown |-> TRUE, values |-> <<>>, pos |-> bound.pos]
             ELSE [thrown |-> rest.thrown, values |-> <<bound.value>> \o rest.values,
                   pos |-> rest.pos]

\* parseCropOperation from "Extract category if present" on: region is what
\* extractRegion yielded, pos the position it left
parseCropOptions(content, region, pos) ==
    LET brace == find(content, "}", pos)
        \* category
        category_pos == find(content, "\"category\":", pos)
        has_category == category_pos # NPos /\ SizeLess(category_pos, brace)
        cat_start == SizeAdd(find(content, ":", category_pos), 1)
        cat_end == find_first_of(content, {",", "}"}, cat_start)
        category == stoi(substr(content, cat_start, cat_end))
        \* one_of_groups
        groups_pos == find(content, "\"one_of_groups\":", pos)
        has_one_of_groups == groups_pos # NPos /\ SizeLess(groups_pos, brace)
        grp_start == SizeAdd(find(content, "[", groups_pos), 1)
        grp_end == find(content, "]", grp_start)
        groups == parseGroupIds(substr(content, grp_start, grp_end), 0)
        \* proper
        proper_pos == find(content, "\"proper\":", pos)
        has_proper == proper_pos # NPos /\ SizeLess(proper_pos, brace)
        proper_str == substr(content, proper_pos + 9, Min({proper_pos + 9 + 4, Len(content)}))
        proper == has_proper /\ find(proper_str, "true", 0) # NPos
    IN  IF region.thrown THEN ParseThrows("stod")
        ELSE IF has_category /\ category.thrown THEN ParseThrows("stoi")
        ELSE IF has_one_of_groups /\ groups.thrown THEN ParseThrows("stol")
        ELSE Parsed(CropOperation(
                [region |-> Region(region.values[1], region.values[2],
                                   region.values[3], region.values[4]),
                 category |-> IF has_category THEN category.value ELSE -1,
                 one_of_groups |-> IF has_one_of_groups THEN groups.ids ELSE <<>>,
                 proper |-> proper,
                 has_category |-> has_category,
                 has_one_of_groups |-> has_one_of_groups]))

parseCropRegion(content, region) == parseCropOptions(content, region, region.pos)

parseCropOperation(content, start_pos) ==
    parseCropRegion(content,
        extractRegion(content, 1,
            SizeAdd(find(content, "\"operator_crop\"", start_pos), 15)))

RECURSIVE skipSeparators(_, _, _)
\* while (pos < array_end && (content[pos] == ' ' || ... ',' || ... '\n')) pos++
skipSeparators(content, pos, array_end) ==
    IF SizeLess(pos, array_end) /\ CharAt(content, pos) \in {" ", ",", "\n"}
    THEN skipSeparators(content, pos + 1, array_end)
    ELSE pos

RECURSIVE parseOperationFrom(_, _, _)
RECURSIVE parseOperands(_, _, _, _, _, _)

\* The loop "while (pos < array_end)" of parseAndOperation and of
\* parseOrOperation, entered at pos with the operands pushed so far.  The
\* loop decides by pos alone, so it never ends once it is back at a position
\* of `seen`, those it has been entered at.  Yields [result, what, operands].
parseOperands(content, pos, array_end, operands, seen, active) ==
    LET at == skipSeparators(content, pos, array_end)
        nested == parseOperationFrom(content, at, active)
        next == SizeAdd(findMatchingBrace(content, at), 1)
    IN  IF ~SizeLess(pos, array_end) \/ ~SizeLess(at, array_end)
        THEN [result |-> "ok", what |-> "", operands |-> operands]
        ELSE IF pos \in seen \/ CharAt(content, at) # "{"
        THEN [result |-> "hang", what |-> "", operands |-> operands]
        ELSE IF nested.result # "ok"
        THEN [result |-> nested.result, what |-> nested.what, operands |-> operands]
        ELSE parseOperands(content, next, array_end, Append(operands, nested.op),
                           seen \cup {pos}, active)

parseAndOperation(content, start_pos, active) ==
    LET array_start == find(content, "[", start_pos)
        array_end == find(content, "]", array_start)
        loop == parseOperands(content, SizeAdd(array_start, 1), array_end, <<>>, {}, active)
    IN  IF loop.result = "ok" THEN Parsed(AndOperation(loop.operands))
        ELSE [result |-> loop.result, what |-> loop.what, op |-> Null]

parseOrOperation(content, start_pos, active) ==
    LET array_start == find(content, "[", start_pos)
        array_end == find(content, "]", array_start)
        loop == parseOperands(content, SizeAdd(array_start, 1), array_end, <<>>, {}, active)
    IN  IF loop.result = "ok" THEN Parsed(OrOperation(loop.operands))
        ELSE [result |-> loop.result, what |-> loop.what, op |-> Null]

\* parseOperation called at start_pos while the calls of parseOperation at
\* the positions of `active` have not returned
parseOperationFrom(content, start_pos, active) ==
    IF start_pos \in active THEN ParseHangs
    ELSE IF find(content, "\"operator_crop\"", start_pos) # NPos
    THEN parseCropOperation(content, start_pos)
    ELSE IF find(content, "\"operator_and\"", start_pos) # NPos
    THEN parseAndOperation(content, start_pos, active \cup {start_pos})
    ELSE IF find(content, "\"operator_or\"", start_pos) # NPos
    THEN parseOrOperation(content, start_pos, active \cup {start_pos})
    ELSE ParseThrows("Unknown operator in query")

parseOperation(content, start_pos) == parseOperationFrom(content, start_pos, {})

RECURSIVE JoinLines(_)
\* while (std::getline(file, line)) content += line;
JoinLines(lines) == IF lines = <<>> THEN "" ELSE Head(lines) \o JoinLines(Tail(lines))

\* the file as its lines; a file that cannot be opened reads as no line
parseQueryFile(lines) ==
    LET content == JoinLines(lines)
        query_start == find(content, "\"query\":", 0)
    IN  IF query_start = NPos THEN ParseThrows("No query found in JSON")
        ELSE parseOperation(content, query_start + 8)

(***************************************************************************)
(* RegionQuery: evaluation of an operation tree (solution3.cpp 263-379).   *)
(* Every store access opens a pqxx::connection and a transaction of its    *)
(* own and throws when the store cannot be reached or the read fails.      *)
(* An evaluation yields [thrown, points, reads]: whether an exception      *)
(* left the call, the vector returned, the store accesses attempted.       *)
(***************************************************************************)
\* a store nobody writes to
Store(rows, fail) == [rows |-> rows, failAt |-> fail, later |-> <<>>]

\* a store other sessions commit to between the accesses of the run
StoreWritten(rows, fail, tables) == [rows |-> rows, failAt |-> fail, later |-> tables]

\* the table the k+1-st store access of the run finds: every access has a
\* connection and a transaction of its own, so it sees what is committed then
RowsAt(store, k) ==
    IF k = 0 \/ store.later = <<>> THEN store.rows
    ELSE store.later[Min({k, Len(store.later)})]

Returned(v, k) == [thrown |-> FALSE, what |-> "", points |-> v, reads |-> k]
Thrown(k, what) == [thrown |-> TRUE, what |-> what, points |-> <<>>, reads |-> k]

\* the k+1-st store access of the run throws
StoreThrows(store, k) == store.failAt = k + 1

\* the crop read with the exception caught and an empty result returned
executeCropOperationQuiet(op, store, k) ==
    IF StoreThrows(store, k) THEN Returned(<<>>, k + 1)
    ELSE Returned(ResultVector(SelectCrop(buildCropQuery(op.params), RowsAt(store, k))),
                  k + 1)

RECURSIVE JoinRows(_, _)
\* every row of v once for each member its group has in rows
JoinRows(v, rows) ==
    IF v = <<>> THEN <<>>
    ELSE [j \in 1..Cardinality(GroupRows(rows, Head(v).group_id)) |-> Head(v)]
            \o JoinRows(Tail(v), rows)

\* the proper crop joined with a sub-select that is not grouped: a row comes
\* back once for every member of its group
executeCropOperationUngrouped(op, store, k) ==
    IF StoreThrows(store, k) THEN Thrown(k + 1, "pqxx")
    ELSE LET result == ResultVector(SelectCrop(buildCropQuery(op.params), RowsAt(store, k)))
         IN  Returned(IF op.params.proper THEN JoinRows(result, RowsAt(store, k)) ELSE result,
                      k + 1)

executeCropOperation(op, store, k) ==
    IF StoreThrows(store, k) THEN Thrown(k + 1, "pqxx")
    ELSE Returned(ResultVector(SelectCrop(buildCropQuery(op.params), RowsAt(store, k))),
                  k + 1)

\* the lookup answered from the table the first access of the run found
getPointsByIdsSnapshot(ids, store, k) ==
    IF ids = {} THEN Returned(<<>>, k)
    ELSE IF StoreThrows(store, k) THEN Thrown(k + 1, "pqxx")
    ELSE Returned(ResultVector(SelectByIds(ids, store.rows)), k + 1)

getPointsByIds(ids, store, k) ==
    IF ids = {} THEN Returned(<<>>, k)
    ELSE IF StoreThrows(store, k) THEN Thrown(k + 1, "pqxx")
    ELSE Returned(ResultVector(SelectByIds(ids, RowsAt(store, k))), k + 1)

RECURSIVE executeOperation(_, _, _)
RECURSIVE AndIntersect(_, _, _, _, _)
RECURSIVE OrUnion(_, _, _, _, _)

\* the loop with the running set overwritten instead of intersected
AndOverwrite(operands, i, result_ids, store, k) ==
    IF i > Len(operands) THEN [thrown |-> FALSE, what |-> "", ids |-> result_ids, reads |-> k]
    ELSE LET current_set == executeOperation(operands[i], store, k)
         IN  IF current_set.thrown
             THEN [thrown |-> TRUE, what |-> current_set.what, ids |-> {},
                   reads |-> current_set.reads]
             ELSE AndIntersect(operands, i + 1, IdSet(current_set.points), store,
                               current_set.reads)

\* the loop with the ids of the current operand taken out of the running set
AndDifference(operands, i, result_ids, store, k) ==
    IF i > Len(operands) THEN [thrown |-> FALSE, what |-> "", ids |-> result_ids, reads |-> k]
    ELSE LET current_set == executeOperation(operands[i], store, k)
         IN  IF current_set.thrown
             THEN [thrown |-> TRUE, what |-> current_set.what, ids |-> {},
                   reads |-> current_set.reads]
             ELSE AndIntersect(operands, i + 1, result_ids \ IdSet(current_set.points),
                               store, current_set.reads)

\* the loop left as soon as the running set is empty
AndIntersectUntilEmpty(operands, i, result_ids, store, k) ==
    IF i > Len(operands) \/ result_ids = {}
    THEN [thrown |-> FALSE, what |-> "", ids |-> result_ids, reads |-> k]
    ELSE LET current_set == executeOperation(operands[i], store, k)
         IN  IF current_set.thrown
             THEN [thrown |-> TRUE, what |-> current_set.what, ids |-> {},
                   reads |-> current_set.reads]
             ELSE AndIntersect(operands, i + 1,
                               {id \in result_ids : id \in IdSet(current_set.points)},
                               store, current_set.reads)

\* executeAndOperation's loop "for (size_t i = 1; ...)", from operand i on,
\* result_ids being the running intersection; yields [thrown, ids, reads]
AndIntersect(operands, i, result_ids, store, k) ==
    IF i > Len(operands) THEN [thrown |-> FALSE, what |-> "", ids |-> result_ids, reads |-> k]
    ELSE LET current_set == executeOperation(operands[i], store, k)
             current_ids == IdSet(current_set.points)
             new_result_ids == {id \in result_ids : id \in current_ids}
         IN  IF current_set.thrown
             THEN [thrown |-> TRUE, what |-> current_set.what, ids |-> {},
                   reads |-> current_set.reads]
             ELSE AndIntersect(operands, i + 1, new_result_ids, store, current_set.reads)

\* And of no operands taken as "no constraint": every row of the store
executeAndOperationUniversal(op, store, k) ==
    IF op.operands = <<>> THEN Returned(ResultVector(RowsAt(store, k)), k + 1)
    ELSE LET result_set == executeOperation(op.operands[1], store, k)
             rest == AndIntersect(op.operands, 2, IdSet(result_set.points),
                                  store, result_set.reads)
         IN  IF result_set.thrown THEN result_set
             ELSE IF rest.thrown THEN Thrown(rest.reads, rest.what)
             ELSE getPointsByIds(rest.ids, store, rest.reads)

executeAndOperation(op, store, k) ==
    IF op.operands = <<>> THEN Returned(<<>>, k)
    ELSE LET result_set == executeOperation(op.operands[1], store, k)
             rest == AndIntersect(op.operands, 2, IdSet(result_set.points),
                                  store, result_set.reads)
         IN  IF result_set.thrown THEN result_set
             ELSE IF rest.thrown THEN Thrown(rest.reads, rest.what)
             ELSE getPointsByIds(rest.ids, store, rest.reads)

\* executeOrOperation's loop over the operands, from operand i on
OrUnion(operands, i, result_ids, store, k) ==
    IF i > Len(operands) THEN [thrown |-> FALSE, what |-> "", ids |-> result_ids, reads |-> k]
    ELSE LET current_set == executeOperation(operands[i], store, k)
         IN  IF current_set.thrown
             THEN [thrown |-> TRUE, what |-> current_set.what, ids |-> {},
                   reads |-> current_set.reads]
             ELSE OrUnion(operands, i + 1, result_ids \cup IdSet(current_set.points),
                          store, current_set.reads)

RECURSIVE ConcatResults(_, _, _)
ConcatResults(operands, i, store) ==
    IF i > Len(operands) THEN <<>>
    ELSE executeOperation(operands[i], store, 0).points \o ConcatResults(operands, i + 1, store)

\* Or returning the operands' vectors one after the other, no id set between
executeOrOperationConcat(op, store, k) ==
    LET all == OrUnion(op.operands, 1, {}, store, k)
    IN  IF all.thrown THEN Thrown(all.reads, all.what)
        ELSE Returned(ConcatResults(op.operands, 1, Store(store.rows, 0)), all.reads)

executeOrOperation(op, store, k) ==
    LET all == OrUnion(op.operands, 1, {}, store, k)
    IN  IF all.thrown THEN Thrown(all.reads, all.what)
        ELSE getPointsByIds(all.ids, store, all.reads)

executeOperation(op, store, k) ==
    IF op.type = "crop" THEN executeCropOperation(op, store, k)
    ELSE IF op.type = "and" THEN executeAndOperation(op, store, k)
    ELSE IF op.type = "or" THEN executeOrOperation(op, store, k)
    ELSE Thrown(k, "Unknown operation type")

RECURSIVE SortedVectors(_, _)
\* std::sort(points.begin(), points.end()): every arrangement of the elements
\* of v at the positions I in which no element is less than an earlier one.
\* The order of elements that compare equivalent is not specified.
SortedVectors(v, I) ==
    IF I = {} THEN {<<>>}
    ELSE UNION {{<<v[m]>> \o rest : rest \in SortedVectors(v, I \ {m})} :
                m \in {e \in I : \A o \in I : ~InspectionPointLess(v[o], v[e])}}

\* the lines writeOutputFile prints: "x y"
OutputLines(v) == [i \in 1..Len(v) |-> <<ostream_double(v[i].x), ostream_double(v[i].y)>>]

(***************************************************************************)
(* Inputs                                                                  *)
(***************************************************************************)
\* most operands of an And / Or node
MaxOperands == 2
\* the store accesses of a run that may be the failing one: 1..MaxFailAt
MaxFailAt == 2

\* Rows the loader may have inserted (id is the primary key).
Row1 == InspectionPoint(1, 1, 5 * One, 5 * One, 0)
Row2 == InspectionPoint(2, 1, 20 * One, 20 * One, 1)
Row3 == InspectionPoint(3, 2, One + 2, 7 * One, 1)
Row4 == InspectionPoint(4, 2, 10 * One + 8, 5 * One, 1)
Row5 == InspectionPoint(5, 3, 5 * One, 5 * One, 1)
Rows == {Row1, Row2, Row3, Row4, Row5}
Stores == SUBSET Rows

RegionA == Region(0, 0, 10 * One, 10 * One)
RegionB == Region(One + 4, 0, 10 * One + 6, 10 * One)
RegionC == Region(10 * One, 0, 0, 10 * One)
RegionD == Region(5 * One, 5 * One, 20 * One, 20 * One)

Crop(region, has_category, category, has_groups, groups, proper) ==
    CropOperation([region |-> region, category |-> category, one_of_groups |-> groups,
                   proper |-> proper, has_category |-> has_category,
                   has_one_of_groups |-> has_groups])

CropLeaves ==
    {Crop(RegionA, FALSE, -1, FALSE, <<>>, FALSE),
     Crop(RegionA, FALSE, -1, FALSE, <<>>, TRUE),
     Crop(RegionA, TRUE, 0, FALSE, <<>>, TRUE),
     Crop(RegionA, TRUE, 1, TRUE, <<2, 3>>, FALSE),
     Crop(RegionA, FALSE, -1, TRUE, <<1>>, TRUE),
     Crop(RegionA, FALSE, -1, TRUE, <<>>, FALSE),
     Crop(RegionA, TRUE, -1, FALSE, <<>>, FALSE),
     Crop(RegionB, FALSE, -1, FALSE, <<>>, FALSE),
     Crop(RegionB, FALSE, -1, FALSE, <<>>, TRUE),
     Crop(RegionC, FALSE, -1, FALSE, <<>>, FALSE),
     Crop(RegionD, FALSE, -1, FALSE, <<>>, FALSE),
     Crop(RegionD, TRUE, 1, FALSE, <<>>, FALSE)}

\* what the operands of the trees are drawn from: leaves and nested nodes
OperandPool ==
    {Crop(RegionA, FALSE, -1, FALSE, <<>>, FALSE),
     Crop(RegionD, FALSE, -1, FALSE, <<>>, FALSE),
     Crop(RegionA, TRUE, 1, TRUE, <<2, 3>>, FALSE),
     AndOperation(<<>>),
     OrOperation(<<Crop(RegionA, TRUE, 0, FALSE, <<>>, TRUE),
                   Crop(RegionD, TRUE, 1, FALSE, <<>>, FALSE)>>),
     AndOperation(<<Crop(RegionD, FALSE, -1, FALSE, <<>>, FALSE)>>)}

QueryTrees ==
    CropLeaves
    \cup {AndOperation(ops) : ops \in SeqsUpTo(OperandPool, MaxOperands)}
    \cup {OrOperation(ops) : ops \in SeqsUpTo(OperandPool, MaxOperands)}

(***************************************************************************)
(* Query files: the description format the parser's keys spell out         *)
(***************************************************************************)
RECURSIVE NatText(_)
NatText(n) == IF n < 10 THEN Digits[n + 1] ELSE NatText(n \div 10) \o Digits[(n % 10) + 1]

RECURSIVE PadText(_, _)
\* n in decimal, with zeros in front up to w digits
PadText(n, w) == IF w = 0 THEN "" ELSE PadText(n \div 10, w - 1) \o Digits[(n % 10) + 1]

IntText(n) == IF n < 0 THEN "-" \o NatText(-n) ELSE NatText(n)

\* a coordinate in decimal: whole numbers without a fraction
NumberText(v) ==
    IF v % One = 0 THEN IntText(v \div One)
    ELSE NatText(v \div One) \o "." \o PadText(v % One, 7)

RECURSIVE ListText(_, _)
\* the texts of s, from element i on, separated by ", "
ListText(s, i) ==
    IF i > Len(s) THEN ""
    ELSE s[i] \o (IF i < Len(s) THEN ", " ELSE "") \o ListText(s, i + 1)

RegionText(r) ==
    "\"region\": {\"p_min\": { \"x\": " \o NumberText(r.p_min_x)
        \o ", \"y\": " \o NumberText(r.p_min_y)
        \o " }, \"p_max\": { \"x\": " \o NumberText(r.p_max_x)
        \o ", \"y\": " \o NumberText(r.p_max_y) \o " }}"

CropText(params) ==
    "{\"operator_crop\": {" \o RegionText(params.region)
        \o (IF params.has_category THEN ", \"category\": " \o IntText(params.category)
            ELSE "")
        \o (IF params.has_one_of_groups
            THEN ", \"one_of_groups\": ["
                    \o ListText([i \in 1..Len(params.one_of_groups) |->
                                    IntText(params.one_of_groups[i])], 1) \o "]"
            ELSE "")
        \o (IF params.proper THEN ", \"proper\": true" ELSE "")
        \o "}}"

RECURSIVE OperationText(_)
\* the object that describes an operation tree
OperationText(op) ==
    IF op.type = "crop" THEN CropText(op.params)
    ELSE "{\"operator_" \o op.type \o "\": ["
            \o ListText([i \in 1..Len(op.operands) |-> OperationText(op.operands[i])], 1)
            \o "]}"

\* the query file of an operation tree, on one line
QueryText(op) == "{\"query\": " \o OperationText(op) \o "}"

\* the same file on three lines
QueryLines(op) == <<"{", "  \"query\": " \o OperationText(op), "}">>

\* the file of an And / Or tree with a tab, which JSON allows as white space,
\* in front of the first element of the root array
QueryTabbed(op) ==
    <<"{\"query\": {\"operator_" \o op.type \o "\": [\t"
        \o ListText([i \in 1..Len(op.operands) |-> OperationText(op.operands[i])], 1)
        \o "]}}">>

\* files that describe no operation tree: no file, an unknown tag, no
\* "query" key, a bound that is no number, a region without p_max, a p_max
\* without y, an element of the array that is never closed
MalformedFiles ==
    {<<>>,
     <<"{\"query\": {\"operator_xor\": []}}">>,
     <<"{\"operator_and\": []}">>,
     <<"{\"query\": {\"operator_crop\": {\"region\": {\"p_min\": { \"x\": 1, \"y\": 2 }}}}}">>,
     <<"{\"query\": {\"operator_crop\": {\"region\": {\"p_min\": { \"x\": 0, \"y\": 0 }, \"p_max\": { \"x\": 10 }}}}}">>,
     <<"{\"query\": {\"operator_and\": [{\"operator_or\": [], ]">>,
     <<"{\"query\": {\"operator_crop\": {\"region\": {\"p_min\": { \"x\": left, \"y\": 0 }, \"p_max\": { \"x\": 10, \"y\": 10 }}}}}">>}

CropA == Crop(RegionA, FALSE, -1, FALSE, <<>>, FALSE)
CropD == Crop(RegionD, FALSE, -1, FALSE, <<>>, FALSE)

\* the operation trees the query files describe
Descriptions ==
    {Null,
     CropA,
     Crop(RegionB, FALSE, -1, FALSE, <<>>, FALSE),
     Crop(RegionA, TRUE, 1, FALSE, <<>>, FALSE),
     Crop(RegionA, FALSE, -1, TRUE, <<1, 2>>, FALSE),
     Crop(RegionA, FALSE, -1, TRUE, <<>>, FALSE),
     Crop(RegionA, FALSE, -1, FALSE, <<>>, TRUE),
     Crop(RegionD, TRUE, 0, TRUE, <<3>>, TRUE),
     AndOperation(<<>>),
     OrOperation(<<>>),
     AndOperation(<<AndOperation(<<>>)>>),
     OrOperation(<<OrOperation(<<>>), OrOperation(<<>>)>>),
     OrOperation(<<AndOperation(<<>>)>>),
     AndOperation(<<OrOperation(<<>>), AndOperation(<<>>)>>),
     AndOperation(<<CropA, CropD>>),
     OrOperation(<<CropA, CropD>>),
     AndOperation(<<Crop(RegionA, FALSE, -1, TRUE, <<1, 2>>, FALSE), CropD>>),
     OrOperation(<<CropA, Crop(RegionD, TRUE, 1, FALSE, <<>>, FALSE)>>)}

\* the files written for a description
Layouts(d) ==
    IF d = Null THEN MalformedFiles
    ELSE {<<QueryText(d)>>, QueryLines(d)}
            \cup (IF d.type \in {"and", "or"} THEN {QueryTabbed(d)} ELSE {})

\* the stores main is run on
MainStores == {{}, {Row1, Row2}, Rows}

(***************************************************************************)
(* main and RegionQuery::executeQuery (solution3.cpp 242-260, 442-479)     *)
(***************************************************************************)
\* auto query_op = SimpleJsonParser::parseQueryFile(query_file);
\* (pc = "parsing": the call has not returned and never will)
ParseQueryFile ==
    /\ pc = "start"
    /\ LET r == parseQueryFile(query_file)
       IN  IF r.result = "ok"
           THEN /\ query_op' = r.op
                /\ pc' = "parsed"
                /\ cerr' = cerr
           ELSE IF r.result = "hang"
           THEN /\ query_op' = query_op
                /\ pc' = "parsing"
                /\ cerr' = cerr
           ELSE /\ query_op' = query_op
                /\ pc' = "failed"
                /\ cerr' = Append(cerr, "Error executing query: " \o r.what)
    /\ UNCHANGED <<query_file, desc, db, failAt, openOk, points, reads, outFile, status>>
    /\ UNCHANGED <<later, data_directory, inspection_group, loads>>

\* auto points = executeOperation(query_op);
ExecuteOperation ==
    /\ pc = "parsed"
    /\ LET r == executeOperation(query_op, StoreWritten(db, failAt, later), 0)
       IN  /\ reads' = r.reads
           /\ points' = r.points
           /\ pc' = IF r.thrown THEN "failed" ELSE "evaluated"
           /\ cerr' = IF r.thrown THEN Append(cerr, "Error executing query: " \o r.what)
                      ELSE cerr
    /\ UNCHANGED <<query_file, desc, db, failAt, openOk, query_op, outFile, status>>
    /\ UNCHANGED <<later, data_directory, inspection_group, loads>>

\* std::sort(points.begin(), points.end());
Sort ==
    /\ pc = "evaluated"
    /\ points' \in SortedVectors(points, 1..Len(points))
    /\ pc' = "sorted"
    /\ UNCHANGED <<query_file, desc, db, failAt, openOk, query_op, reads, outFile, cerr,
                   status>>
    /\ UNCHANGED <<later, data_directory, inspection_group, loads>>

\* return writeOutputFile(output_file, points);
WriteOutputFile ==
    /\ pc = "sorted"
    /\ IF openOk
       THEN /\ outFile' = [opened |-> TRUE, lines |-> OutputLines(points)]
            /\ pc' = "written"
            /\ cerr' = cerr
       ELSE /\ outFile' = outFile
            /\ pc' = "failed"
            /\ cerr' = Append(cerr, "Cannot open output file")
    /\ UNCHANGED <<query_file, desc, db, failAt, openOk, query_op, points, reads, status>>
    /\ UNCHANGED <<later, data_directory, inspection_group, loads>>

\* main: return 0 when executeQuery returned true, 1 otherwise
Return ==
    /\ pc \in {"written", "failed"}
    /\ status' = IF pc = "written" THEN 0 ELSE 1
    /\ cerr' = IF pc = "written" THEN cerr ELSE Append(cerr, "Query execution failed!")
    /\ pc' = "exit"
    /\ UNCHANGED <<query_file, desc, db, failAt, openOk, query_op, points, reads, outFile>>
    /\ UNCHANGED <<later, data_directory, inspection_group, loads>>

\* no data directory: the loader is not run
NoDirectory == [points |-> <<>>, categories |-> <<>>, groups |-> <<>>]

\* main started on a query file
InitMain ==
    /\ pc = "start"
    /\ \E d \in Descriptions : desc = d /\ query_file \in Layouts(d)
    /\ db \in MainStores
    /\ failAt \in 0..MaxFailAt
    /\ openOk \in BOOLEAN
    /\ query_op = Null
    /\ points = <<>>
    /\ reads = 0
    /\ outFile = [opened |-> FALSE, lines |-> <<>>]
    /\ cerr = <<>>
    /\ status = NoStatus
    /\ later = <<>>
    /\ data_directory = NoDirectory
    /\ inspection_group = {r.group_id : r \in db}
    /\ loads = 0

\* executeQuery past its first statement, with any tree of QueryTrees
InitEval ==
    /\ pc = "parsed"
    /\ query_file = <<>>
    /\ desc = Null
    /\ db \in Stores
    /\ failAt \in 0..MaxFailAt
    /\ openOk \in BOOLEAN
    /\ query_op \in QueryTrees
    /\ points = <<>>
    /\ reads = 0
    /\ outFile = [opened |-> FALSE, lines |-> <<>>]
    /\ cerr = <<>>
    /\ status = NoStatus
    /\ later = <<>>
    /\ data_directory = NoDirectory
    /\ inspection_group = {r.group_id : r \in db}
    /\ loads = 0

Init == InitMain \/ InitEval

Next == ParseQueryFile \/ ExecuteOperation \/ Sort \/ WriteOutputFile \/ Return

Spec == Init /\ [][Next]_vars

(***************************************************************************)
(* executeQuery while another session writes to inspection_region.  The    *)
(* writer's commits fall between the store accesses of the run; what they  *)
(* leave for each access is drawn at the start.                            *)
(***************************************************************************)
\* most tables the writer leaves in the course of a run
MaxWrites == 2

\* row 1 after an UPDATE of its coordinates and category
Row1Moved == InspectionPoint(1, 1, 15 * One, 15 * One, 1)

\* the table before and after the writer's UPDATE, DELETE and INSERT
WriterTables ==
    {{Row1, Row2, Row5},
     {Row1Moved, Row2, Row5},
     {Row1Moved, Row2},
     {Row1, Row2},
     {Row1, Row2, Row3, Row5},
     {}}

WriterTrees ==
    {CropA, CropD,
     AndOperation(<<CropA, CropD>>),
     OrOperation(<<CropA, CropD>>),
     AndOperation(<<CropD>>),
     OrOperation(<<CropA, AndOperation(<<CropA, CropD>>)>>),
     AndOperation(<<OrOperation(<<CropA, CropD>>), CropD>>)}

InitWriter ==
    /\ pc = "parsed"
    /\ query_file = <<>>
    /\ desc = Null
    /\ db \in WriterTables
    /\ later \in SeqsUpTo(WriterTables, MaxWrites)
    /\ failAt = 0
    /\ openOk \in BOOLEAN
    /\ query_op \in WriterTrees
    /\ points = <<>>
    /\ reads = 0
    /\ outFile = [opened |-> FALSE, lines |-> <<>>]
    /\ cerr = <<>>
    /\ status = NoStatus
    /\ data_directory = NoDirectory
    /\ inspection_group = {r.group_id : r \in db}
    /\ loads = 0

NextWriter == ExecuteOperation \/ Sort \/ WriteOutputFile \/ Return

SpecWriter == InitWriter /\ [][NextWriter]_vars

(***************************************************************************)
(* DataLoader (solution1.cpp 75-231): the three files of a data directory  *)
(* are read, and one row per entry is inserted in a single transaction.    *)
(***************************************************************************)
\* "iss >> x" at position i of the line: white space, a sign, digits, a
\* fraction; yields [fail, value, pos]
istream_double(s, i) ==
    LET b == SkipSpaces(s, i)
        neg == CharAt(s, b) = "-"
        d == IF CharAt(s, b) \in {"-", "+"} THEN b + 1 ELSE b
        e == DigitsEnd(s, d)
        f == IF CharAt(s, e) = "." THEN e + 1 ELSE e
        g == DigitsEnd(s, f)
        kept == IF g - f > 7 THEN f + 7 ELSE g
        n == DecimalValue(s, d, e, 0) * One
                + DecimalValue(s, f, kept, 0) * (10 ^ (7 - (kept - f)))
    IN  IF e = d /\ g = f THEN [fail |-> TRUE, value |-> 0, pos |-> b]
        ELSE [fail |-> FALSE, value |-> IF neg THEN -n ELSE n, pos |-> g]

RECURSIVE readPointsFile(_)
\* the pairs of the lines that are not empty and read as two numbers
readPointsFile(lines) ==
    IF lines = <<>> THEN <<>>
    ELSE LET line == Head(lines)
             x == istream_double(line, 0)
             y == istream_double(line, x.pos)
         IN  (IF line # "" /\ ~x.fail /\ ~y.fail THEN <<<<x.value, y.value>>>> ELSE <<>>)
                \o readPointsFile(Tail(lines))

RECURSIVE readCategoriesFile(_)
\* std::stoi of every line that is not empty; yields [thrown, values]
readCategoriesFile(lines) ==
    IF lines = <<>> THEN [thrown |-> FALSE, values |-> <<>>]
    ELSE LET line == Head(lines)
             category == stoi(line)
             rest == readCategoriesFile(Tail(lines))
         IN  IF line = "" THEN rest
             ELSE IF category.thrown \/ rest.thrown THEN [thrown |-> TRUE, values |-> <<>>]
             ELSE [thrown |-> FALSE, values |-> <<category.value>> \o rest.values]

RECURSIVE readGroupsFile(_)
\* std::stol of every line that is not empty; yields [thrown, values]
readGroupsFile(lines) ==
    IF lines = <<>> THEN [thrown |-> FALSE, values |-> <<>>]
    ELSE LET line == Head(lines)
             group == stol(line)
             rest == readGroupsFile(Tail(lines))
         IN  IF line = "" THEN rest
             ELSE IF group.thrown \/ rest.thrown THEN [thrown |-> TRUE, values |-> <<>>]
             ELSE [thrown |-> FALSE, values |-> <<group.value>> \o rest.values]

\* the two tables
Tables(region, group) == [region |-> region, group |-> group]

\* INSERT ... ON CONFLICT (id) DO UPDATE: the row of the file replaces the
\* row of the table
InsertRegionUpdating(region, row) == {r \in region : r.id # row.id} \cup {row}

\* "INSERT INTO inspection_region ... ON CONFLICT (id) DO NOTHING"
InsertRegion(region, row) ==
    IF \E r \in region : r.id = row.id THEN region ELSE region \cup {row}

RECURSIVE InsertRows(_, _, _, _, _, _)
\* the loop of insertIntoDatabase from entry i on (i counted from 1): two
\* statements per entry, the fail-th statement of the transaction throws;
\* yields [thrown, region, group]
InsertRows(i, xy, categories, groups, tables, fail) ==
    IF i > Len(xy) THEN [thrown |-> FALSE, region |-> tables.region, group |-> tables.group]
    ELSE IF fail \in {2 * i - 1, 2 * i}
    THEN [thrown |-> TRUE, region |-> tables.region, group |-> tables.group]
    ELSE InsertRows(i + 1, xy, categories, groups,
                    Tables(InsertRegion(tables.region,
                                        InspectionPoint(i, groups[i], xy[i][1],
                                                        xy[i][2], categories[i])),
                           tables.group \cup {groups[i]}),
                    fail)

\* yields [ok, region, group]: what is committed; nothing of a transaction
\* that an exception has left
insertIntoDatabase(xy, categories, groups, tables, fail) ==
    LET done == InsertRows(1, xy, categories, groups, tables, fail)
    IN  IF done.thrown THEN [ok |-> FALSE, region |-> tables.region, group |-> tables.group]
        ELSE [ok |-> TRUE, region |-> done.region, group |-> done.group]

\* yields [ok, region, group]
loadData(directory, tables, fail) ==
    LET xy == readPointsFile(directory.points)
        categories == readCategoriesFile(directory.categories)
        groups == readGroupsFile(directory.groups)
    IN  IF categories.thrown \/ groups.thrown
        THEN [ok |-> FALSE, region |-> tables.region, group |-> tables.group]
        ELSE IF Len(xy) # Len(categories.values) \/ Len(xy) # Len(groups.values)
        THEN [ok |-> FALSE, region |-> tables.region, group |-> tables.group]
        ELSE insertIntoDatabase(xy, categories.values, groups.values, tables, fail)

\* most runs of the loader
MaxLoads == 2
\* the statements of a load that may be the failing one: 1..MaxStatement
MaxStatement == 3

Directory(xy, categories, groups) ==
    [points |-> xy, categories |-> categories, groups |-> groups]

\* two regions; the same with an empty line 2 in every file; with the empty
\* line elsewhere in each file; with a points line that is no pair of
\* numbers; three other regions; a category that is no number; one group short
DataDirectories ==
    {Directory(<<"5 5", "20 20">>, <<"0", "1">>, <<"1", "1">>),
     Directory(<<"5 5", "", "20 20">>, <<"0", "", "1">>, <<"1", "", "1">>),
     Directory(<<"5 5", "", "20 20">>, <<"", "0", "1">>, <<"1", "1", "">>),
     Directory(<<"5 5", "x y", "20 20">>, <<"0", "", "1">>, <<"1", "", "1">>),
     Directory(<<"1.5 1", "2 2", "3 -3">>, <<"1", "1", "0">>, <<"2", "2", "3">>),
     Directory(<<"5 5", "20 20">>, <<"0", "none">>, <<"1", "1">>),
     Directory(<<"5 5", "20 20">>, <<"0", "1">>, <<"1">>)}

\* loader.loadData(data_directory)
LoadData ==
    /\ pc = "load"
    /\ LET done == loadData(data_directory, Tables(db, inspection_group), failAt)
       IN  /\ db' = done.region
           /\ inspection_group' = done.group
           /\ pc' = IF done.ok THEN "loaded" ELSE "load_failed"
    /\ UNCHANGED <<query_file, desc, failAt, openOk, query_op, points, reads, outFile, cerr,
                   status, later, data_directory, loads>>

\* main of the loader: return 0 when loadData returned true, 1 otherwise
ReturnLoad ==
    /\ pc \in {"loaded", "load_failed"}
    /\ status' = IF pc = "loaded" THEN 0 ELSE 1
    /\ pc' = "exit"
    /\ UNCHANGED <<query_file, desc, db, failAt, openOk, query_op, points, reads, outFile,
                   cerr, later, data_directory, inspection_group, loads>>

\* the loader is run again, on any data directory
RunLoader ==
    /\ pc = "exit" /\ loads < MaxLoads
    /\ pc' = "load"
    /\ loads' = loads + 1
    /\ data_directory' \in DataDirectories
    /\ failAt' \in 0..MaxStatement
    /\ status' = NoStatus
    /\ UNCHANGED <<query_file, desc, db, openOk, query_op, points, reads, outFile, cerr,
                   later, inspection_group>>

\* the first run of the loader, on tables without rows
InitLoader ==
    /\ pc = "load"
    /\ loads = 1
    /\ data_directory \in DataDirectories
    /\ failAt \in 0..MaxStatement
    /\ db = {}
    /\ inspection_group = {}
    /\ query_file = <<>>
    /\ desc = Null
    /\ openOk = TRUE
    /\ query_op = Null
    /\ points = <<>>
    /\ reads = 0
    /\ outFile = [opened |-> FALSE, lines |-> <<>>]
    /\ cerr = <<>>
    /\ status = NoStatus
    /\ later = <<>>

NextLoader == LoadData \/ ReturnLoad \/ RunLoader

SpecLoader == InitLoader /\ [][NextLoader]_vars

(***************************************************************************)
(* Properties of the evaluator                                             *)
(***************************************************************************)
\* the id set an operand yields when evaluated alone on the present store
OperandIds(i) ==
    IdSet(executeOperation(query_op.operands[i], Store(db, 0), 0).points)

NumOperands == Len(query_op.operands)

\* C1: an And node with two or more operands returns points whose id set is
\* the intersection of the id sets of its operands, each evaluated on the
\* same store.
C1_AndIsIntersection ==
    (pc = "evaluated" /\ query_op.type = "and" /\ NumOperands >= 2) =>
        IdSet(points) = {id \in OperandIds(1) : \A i \in 2..NumOperands : id \in OperandIds(i)}

\* an And of two operands neither of which alone yields the (non-empty) result
C1_Witness ==
    /\ pc = "evaluated" /\ query_op.type = "and" /\ NumOperands = 2
    /\ IdSet(points) # {}
    /\ OperandIds(1) # IdSet(points) /\ OperandIds(2) # IdSet(points)

\* C2: an Or node returns points whose id set is the union of the id sets
\* of its operands, and no id occurs twice in the returned sequence.
C2_OrIsUnionOnce ==
    (pc = "evaluated" /\ query_op.type = "or") =>
        /\ IdSet(points) = UNION {OperandIds(i) : i \in 1..NumOperands}
        /\ \A i, j \in 1..Len(points) : points[i].id = points[j].id => i = j

\* an Or of two operands that share an id and each have one of their own
C2_Witness ==
    /\ pc = "evaluated" /\ query_op.type = "or" /\ NumOperands = 2
    /\ OperandIds(1) \cap OperandIds(2) # {}
    /\ OperandIds(1) \ OperandIds(2) # {}
    /\ OperandIds(2) \ OperandIds(1) # {}

\* C3: And of no operands and Or of no operands both yield the empty
\* sequence, whatever the store holds, and without reading the store.
C3_EmptyOperands ==
    (pc = "evaluated" /\ query_op.type \in {"and", "or"} /\ NumOperands = 0) =>
        (points = <<>> /\ reads = 0)

\* the empty And evaluated on the full store
C3_Witness ==
    pc = "evaluated" /\ query_op = AndOperation(<<>>) /\ db = Rows /\ points = <<>>

\* C4: an And node with one operand returns the points of that operand:
\* the same rows, field by field.
C4_AndOfOne ==
    (pc = "evaluated" /\ query_op.type = "and" /\ NumOperands = 1) =>
        Range(points) = Range(executeOperation(query_op.operands[1], Store(db, 0), 0).points)

\* an And of one operand that selects some rows of the store and not others
C4_Witness ==
    /\ pc = "evaluated" /\ query_op.type = "and" /\ NumOperands = 1
    /\ points # <<>> /\ Range(points) # db

InRegion(r, region) ==
    /\ region.p_min_x <= r.x /\ r.x <= region.p_max_x
    /\ region.p_min_y <= r.y /\ r.y <= region.p_max_y

\* C5: a crop with proper = true returns no point whose group has a member
\* outside the region, with the filter of solution 3 and with the filter of
\* solution 2.
C5_ProperWholeGroups ==
    (pc = "evaluated" /\ query_op.type = "crop" /\ query_op.params.proper) =>
        \A p \in Range(points) \cup SelectCrop(buildQuery(QueryParams(query_op.params)), db) :
            \A r \in GroupRows(db, p.group_id) : InRegion(r, query_op.params.region)

\* C6: a crop with proper = false returns exactly the rows inside the region
\* (bounds inclusive) that have the category, when one is set, and a group of
\* the list, when a non-empty list is set.
C6_CropSelectsExactly ==
    (pc = "evaluated" /\ query_op.type = "crop" /\ ~query_op.params.proper) =>
        Range(points) =
            {r \in db :
                /\ InRegion(r, query_op.params.region)
                /\ query_op.params.has_category => r.category = query_op.params.category
                /\ (query_op.params.has_one_of_groups /\ query_op.params.one_of_groups # <<>>)
                        => r.group_id \in Range(query_op.params.one_of_groups)}

\* the coordinates of the points of a vector, in order
Coordinates(v) == [i \in 1..Len(v) |-> <<v[i].x, v[i].y>>]

\* C7: the points handed to the output are sorted by y, then by x; they are
\* the lines written, in that order; sorting them again changes no line.
C7_OutputSorted ==
    (pc \in {"sorted", "written"}) =>
        /\ \A i \in 1..(Len(points) - 1) :
              \/ points[i].y < points[i + 1].y
              \/ points[i].y = points[i + 1].y /\ points[i].x <= points[i + 1].x
        /\ \A again \in SortedVectors(points, 1..Len(points)) :
              Coordinates(again) = Coordinates(points)
        /\ pc = "written" => outFile.lines = OutputLines(points)

\* a written result with a tie on y, two distinct y, and an order other than
\* the one the store returned the rows in
C7_Witness ==
    /\ pc = "written" /\ Len(points) >= 3
    /\ \E i \in 1..(Len(points) - 1) : points[i].y = points[i + 1].y /\ points[i].x < points[i + 1].x
    /\ \E i \in 1..(Len(points) - 1) : points[i].y < points[i + 1].y
    /\ points # ResultVector(Range(points))

(***************************************************************************)
(* Properties of main, executeQuery and the parser                         *)
(***************************************************************************)
\* a store access of this run has thrown
StoreThrew == failAt # 0 /\ reads >= failAt

\* parseQueryFile has thrown
ParseThrew == pc \notin {"start", "parsing"} /\ query_op = Null

ParseOf(op) == parseQueryFile(<<QueryText(op)>>).op

\* C9: the file of an And (Or) description parses to an And (Or) node whose
\* operands are, in order, the parses of the elements of its array.
C9_ParsesAndOr ==
    (pc = "parsed" /\ desc.type \in {"and", "or"}) =>
        /\ query_op.type = desc.type
        /\ Len(query_op.operands) = Len(desc.operands)
        /\ \A i \in 1..Len(desc.operands) : query_op.operands[i] = ParseOf(desc.operands[i])

RECURSIVE CropsOf(_)
\* the parameters of the crop objects of a description
CropsOf(op) ==
    IF op.type = "crop" THEN {op.params}
    ELSE UNION {CropsOf(op.operands[i]) : i \in 1..Len(op.operands)}

\* C10: the file of a crop description parses to a crop node with the
\* category, groups and proper given there, and unset / unset / false for
\* the fields not given; a field a crop node has is a field of the crop
\* object its region was read from, never one of another crop object.
C10_ParsesCropFields ==
    /\ (pc = "parsed" /\ desc.type = "crop") =>
          /\ query_op.type = "crop"
          /\ query_op.params.has_category = desc.params.has_category
          /\ query_op.params.category = desc.params.category
          /\ query_op.params.has_one_of_groups = desc.params.has_one_of_groups
          /\ query_op.params.one_of_groups = desc.params.one_of_groups
          /\ query_op.params.proper = desc.params.proper
    /\ (pc = "parsed" /\ desc.type \in {"and", "or"} /\ query_op.type = "crop") =>
          \E c \in CropsOf(desc) :
              /\ query_op.params.region = c.region
              /\ query_op.params.has_category =>
                    c.has_category /\ query_op.params.category = c.category
              /\ query_op.params.has_one_of_groups =>
                    c.has_one_of_groups /\ query_op.params.one_of_groups = c.one_of_groups
              /\ query_op.params.proper => c.proper

\* C11: a file that describes no operation tree (no or an unknown operation
\* tag, a crop region without one of its four bounds) never yields a tree:
\* when parseQueryFile has returned, it has thrown, and the process fails.
C11_MalformedFails ==
    (desc = Null /\ pc \notin {"start", "parsing"}) =>
        /\ query_op = Null
        /\ pc \in {"failed", "exit"}
        /\ pc = "exit" => status = 1

\* C12: parseQueryFile returns or throws on every file: the process never
\* stays inside it.
C12_ParserTerminates == pc # "parsing"

\* the crop parameters with the groups list taken away
GroupsAbsent(params) ==
    [params EXCEPT !.has_one_of_groups = FALSE, !.one_of_groups = <<>>]

\* C13: a crop whose groups list is present and empty selects the rows the
\* same crop without a groups list selects, with the filter of solution 3
\* and with that of solution 2; the file with "one_of_groups": [] parses to
\* a crop that is given the filter of the file without the key.
C13_EmptyGroupsUnset ==
    /\ (pc = "evaluated" /\ query_op.type = "crop"
            /\ query_op.params.has_one_of_groups /\ query_op.params.one_of_groups = <<>>) =>
          /\ Range(points) = SelectCrop(buildCropQuery(GroupsAbsent(query_op.params)), db)
          /\ SelectCrop(buildQuery(QueryParams(query_op.params)), db)
                = SelectCrop(buildQuery(QueryParams(GroupsAbsent(query_op.params))), db)
    /\ (pc = "parsed" /\ desc.type = "crop"
            /\ desc.params.has_one_of_groups /\ desc.params.one_of_groups = <<>>) =>
          /\ query_op.type = "crop"
          /\ buildCropQuery(query_op.params)
                = buildCropQuery(ParseOf(CropOperation(GroupsAbsent(desc.params))).params)

\* a crop with an empty groups list that has returned rows of two groups
C13_Witness ==
    /\ pc = "evaluated" /\ query_op.type = "crop"
    /\ query_op.params.has_one_of_groups /\ query_op.params.one_of_groups = <<>>
    /\ Cardinality({points[i].group_id : i \in 1..Len(points)}) >= 2

\* the id set an operation yields on the present store
Ids(op) == IdSet(executeOperation(op, Store(db, 0), 0).points)

\* a node of the kind of the root with the given operands
Node(operands) ==
    IF query_op.type = "and" THEN AndOperation(operands) ELSE OrOperation(operands)

\* the rearrangements of the positions of the root's operands
Rearrangements ==
    {f \in [1..NumOperands -> 1..NumOperands] :
        \A i \in 1..NumOperands : \E j \in 1..NumOperands : f[j] = i}

\* C14: the id set of an And / Or node does not depend on the order of its
\* operands (every rearrangement), on their grouping (A, B the first and the
\* last operand, C any operand of the pool: [A, [B, C]], [[A, B], C] and
\* [A, B, C] agree) or on an operand being repeated ([A, A] yields what A does).
C14_OrderGroupingRepeat ==
    (pc = "evaluated" /\ query_op.type \in {"and", "or"} /\ NumOperands >= 1) =>
        LET A == query_op.operands[1]
            B == query_op.operands[NumOperands]
        IN  /\ \A f \in Rearrangements :
                  Ids(Node([i \in 1..NumOperands |-> query_op.operands[f[i]]])) = IdSet(points)
            /\ \A C \in OperandPool :
                  /\ Ids(Node(<<A, Node(<<B, C>>)>>)) = Ids(Node(<<Node(<<A, B>>), C>>))
                  /\ Ids(Node(<<A, B, C>>)) = Ids(Node(<<A, Node(<<B, C>>)>>))
            /\ \A i \in 1..NumOperands :
                  Ids(Node(<<query_op.operands[i], query_op.operands[i]>>)) = Ids(query_op.operands[i])

\* an And of two operands with different, overlapping id sets, neither
\* containing the other
C14_Witness ==
    /\ pc = "evaluated" /\ query_op.type = "and" /\ NumOperands = 2
    /\ Ids(query_op.operands[1]) \ Ids(query_op.operands[2]) # {}
    /\ Ids(query_op.operands[2]) \ Ids(query_op.operands[1]) # {}
    /\ Ids(query_op.operands[1]) \cap Ids(query_op.operands[2]) # {}
    /\ IdSet(points) = Ids(query_op.operands[1]) \cap Ids(query_op.operands[2])

\* C15: the sequence handed to the output holds no two points with the same
\* id, whatever the root of the tree is.
C15_OutputIdsUnique ==
    (pc \in {"evaluated", "sorted", "written"}) =>
        \A i, j \in 1..Len(points) : points[i].id = points[j].id => i = j

\* a proper crop at the root that has written two points of one group
C15_Witness ==
    /\ pc = "written" /\ query_op.type = "crop" /\ query_op.params.proper
    /\ \E i, j \in 1..Len(points) : i # j /\ points[i].group_id = points[j].group_id

RECURSIVE OperandReads(_, _)
\* the store accesses the operands from the i-th on make when nothing fails
OperandReads(operands, i) ==
    IF i > Len(operands) THEN 0
    ELSE executeOperation(operands[i], Store(db, 0), 0).reads + OperandReads(operands, i + 1)

\* C17: an And node evaluates all its operands, one after the other, also
\* when the running intersection is already empty: if the failing store
\* access is one of theirs the evaluation is aborted at that access;
\* otherwise the accesses made are those of all operands, and one more for
\* the lookup by ids when the intersection is not empty.
C17_AndEvaluatesAll ==
    (query_op.type = "and" /\ NumOperands >= 1
            /\ pc \in {"evaluated", "sorted", "written", "failed", "exit"}) =>
        LET total == OperandReads(query_op.operands, 1)
            ids == {id \in OperandIds(1) : \A i \in 2..NumOperands : id \in OperandIds(i)}
        IN  IF failAt \in 1..total
            THEN /\ pc \in {"failed", "exit"}
                 /\ reads = failAt
                 /\ points = <<>> /\ ~outFile.opened
            ELSE reads = total + (IF ids = {} THEN 0 ELSE 1)

\* the read of the second operand has failed after the first operand had
\* yielded no point
C17_Witness ==
    /\ query_op.type = "and" /\ NumOperands = 2
    /\ query_op.operands[1].type = "crop" /\ OperandIds(1) = {}
    /\ db # {} /\ OperandIds(2) # {}
    /\ pc = "failed" /\ failAt = 2 /\ reads = 2

\* C19: for a single crop the filter of solution 2 selects the rows the
\* filter of solution 3 selects, the category -1 included.
C19_SolutionsAgree ==
    (pc = "evaluated" /\ query_op.type = "crop") =>
        SelectCrop(buildQuery(QueryParams(query_op.params)), db) = Range(points)

(***************************************************************************)
(* Properties of a run beside a writer (SpecWriter)                        *)
(***************************************************************************)
\* what the root And / Or node has computed from its operands when it turns
\* to the lookup by ids: [thrown, what, ids, reads]
RootIds ==
    IF query_op.type = "or"
    THEN OrUnion(query_op.operands, 1, {}, StoreWritten(db, failAt, later), 0)
    ELSE LET result_set == executeOperation(query_op.operands[1],
                                            StoreWritten(db, failAt, later), 0)
         IN  AndIntersect(query_op.operands, 2, IdSet(result_set.points),
                          StoreWritten(db, failAt, later), result_set.reads)

\* C18: whatever the writer commits between the reads, the points an And /
\* Or node returns are the rows which the table holds at the time of the
\* lookup by ids under the ids the node has computed from its operands: no
\* other id, and the field values of that time.
C18_LookupSeesLatest ==
    (pc = "evaluated" /\ query_op.type \in {"and", "or"} /\ NumOperands >= 1) =>
        /\ IdSet(points) \subseteq RootIds.ids
        /\ Range(points)
              = {r \in RowsAt(StoreWritten(db, failAt, later), RootIds.reads) :
                    r.id \in RootIds.ids}

\* an id the node had computed is gone at the time of the lookup, and a
\* returned point has other field values than the row the leaf read saw
C18_Witness ==
    /\ pc = "evaluated" /\ query_op.type \in {"and", "or"} /\ NumOperands = 2
    /\ RootIds.ids \ IdSet(points) # {}
    /\ \E p \in Range(points) : p \notin db /\ p.id \in {r.id : r \in db}

(***************************************************************************)
(* Properties of the loader (SpecLoader)                                   *)
(***************************************************************************)
\* line i of a file; "" past its end
LineOf(lines, i) == IF i \in 1..Len(lines) THEN lines[i] ELSE ""

\* line i of the three files describes a region: a pair of numbers, a
\* category, a group
LineDescribes(directory, i) ==
    /\ Len(readPointsFile(<<LineOf(directory.points, i)>>)) = 1
    /\ LineOf(directory.categories, i) # "" /\ ~stoi(LineOf(directory.categories, i)).thrown
    /\ LineOf(directory.groups, i) # "" /\ ~stol(LineOf(directory.groups, i)).thrown

\* the region line i of the three files describes
LineRegion(directory, i) ==
    InspectionPoint(i,
                    stol(LineOf(directory.groups, i)).value,
                    readPointsFile(<<LineOf(directory.points, i)>>)[1][1],
                    readPointsFile(<<LineOf(directory.points, i)>>)[1][2],
                    stoi(LineOf(directory.categories, i)).value)

\* C16: after a load into empty tables the region with id i is the one line
\* i of points.txt, categories.txt and groups.txt describes, for every i.
C16_LineIsId ==
    (pc = "loaded" /\ loads = 1) =>
        /\ \A r \in db :
              LineDescribes(data_directory, r.id) /\ r = LineRegion(data_directory, r.id)
        /\ \A i \in 1..Len(data_directory.points) :
              LineDescribes(data_directory, i) => \E r \in db : r.id = i

\* C20: a load changes no row that is there (region or group); a load that
\* fails leaves both tables as they were; after a load that succeeds, a load
\* of the same directory would change nothing.
C20_LoadKeepsRows ==
    [][pc = "load" =>
          /\ \A r \in db : r \in db'
          /\ inspection_group \subseteq inspection_group'
          /\ pc' = "load_failed" => (db' = db /\ inspection_group' = inspection_group)
          /\ pc' = "loaded" =>
                LET again == loadData(data_directory, Tables(db', inspection_group'), 0)
                IN  again.ok /\ again.region = db' /\ again.group = inspection_group'
      ]_vars

\* a second load has succeeded on a directory that describes, under an id
\* already there, another region than the one the table keeps, and has
\* added a region
C20_Witness ==
    /\ pc = "loaded" /\ loads = 2
    /\ \E r \in db : \E n \in loadData(data_directory, Tables({}, {}), 0).region :
          n.id = r.id /\ n # r
    /\ \E r \in db : r \in loadData(data_directory, Tables({}, {}), 0).region /\ r.id = 3

=============================================================================
